---- MODULE Spec2Model ----
(***************************************************************************)
(* Star calculation of rosu-pp-older: the orchestrator `stars`             *)
(* (osu_2015_april/stars.rs and osu_2021_july/mod.rs) driving              *)
(* `OsuObject::new` (osu_2021_january/osu_object.rs) over a beatmap.       *)
(*                                                                         *)
(* Number model.  The code computes in f32/f64.  Here every quantity is an *)
(* integer: distances in 1/100 osu!pixel, times in milliseconds, the clock *)
(* rate and the scaling factor as fractions n/d.  The inputs are chosen so *)
(* that the divisions that decide a result are exact.  The one non-finite  *)
(* value the code can produce on these inputs, 0.0/0.0 for a zero span     *)
(* duration, is kept as an explicit NaN.  Paths are straight and lie on    *)
(* one axis, so a position is one integer.                                 *)
(***************************************************************************)
EXTENDS Integers, Sequences, FiniteSets, TLC

\* ---- program constants ------------------------------------------------
OBJECT_RADIUS == 64
SECTION_LEN == 400
NORMALIZED_RADIUS == 52
LEGACY_LAST_TICK_OFFSET == 36
BASE_SCORING_DISTANCE == 100
\* OD_MIN = 79.5 and OD_MAX = 19.5, in tenths of a millisecond
OD_MIN == 795
OD_MAX == 195

\* ---- bounds of the model ----------------------------------------------
MaxObjs == 3
MaxRepeats == 2

\* ---- arithmetic helpers -----------------------------------------------
Min(a, b) == IF a <= b THEN a ELSE b
Max(a, b) == IF a >= b THEN a ELSE b
Abs(a) == IF a >= 0 THEN a ELSE -a
Sign(a) == IF a > 0 THEN 1 ELSE IF a < 0 THEN -1 ELSE 0
\* f32::ceil of a / b for a >= 0, b > 0
CeilDiv(a, b) == (a + b - 1) \div b

RECURSIVE GCD(_, _)
GCD(a, b) == IF b = 0 THEN a ELSE GCD(b, a % b)

None == [some |-> FALSE, v |-> 0]
Some(x) == [some |-> TRUE, v |-> x]

\* ---- the external inputs of one call ----------------------------------
\* A hit object of the beatmap with the timing/difficulty point that governs
\* it: kind, start_time, pos, and for a slider the length of its curve
\* (Curve::dist), its repeats, the beat length, the slider velocity and the
\* tick-generation flag.
Circle(t) ==
    [kind |-> "circle", start_time |-> t, pos |-> 0, curve_dist |-> 0,
     repeats |-> 0, beat_len |-> 500, slider_vel |-> 1, generate_ticks |-> TRUE]
Spinner(t) ==
    [kind |-> "spinner", start_time |-> t, pos |-> 0, curve_dist |-> 0,
     repeats |-> 0, beat_len |-> 500, slider_vel |-> 1, generate_ticks |-> TRUE]
Slider(t, v) ==
    [kind |-> "slider", start_time |-> t, pos |-> 0, curve_dist |-> v.curve_dist,
     repeats |-> v.repeats, beat_len |-> 500, slider_vel |-> v.slider_vel,
     generate_ticks |-> v.generate_ticks]

\* the difficulty-point settings of a slider the model draws from
TimingCases ==
    { [slider_vel |-> 1, generate_ticks |-> TRUE],
      [slider_vel |-> 2, generate_ticks |-> TRUE],
      [slider_vel |-> 1, generate_ticks |-> FALSE] }
\* curve lengths: none, inside the follow circle, just outside it, long
CurveDists == {0, 8000, 10000, 25000}
SliderVariants ==
    { [curve_dist |-> d, repeats |-> r, slider_vel |-> c.slider_vel,
       generate_ticks |-> c.generate_ticks] :
        d \in CurveDists, r \in 0..MaxRepeats, c \in TimingCases }
DefaultVariant ==
    [curve_dist |-> 25000, repeats |-> 1, slider_vel |-> 1, generate_ticks |-> TRUE]

Kinds == {"circle", "slider", "spinner"}
MkObject(k, t, v) ==
    IF k = "circle" THEN Circle(t)
    ELSE IF k = "spinner" THEN Spinner(t)
    ELSE Slider(t, v)

\* start times are the running sums of the gaps
RECURSIVE StartTimes(_)
StartTimes(gaps) ==
    IF gaps = <<>> THEN <<>>
    ELSE LET front == StartTimes(SubSeq(gaps, 1, Len(gaps) - 1))
             last == IF front = <<>> THEN 0 ELSE front[Len(front)]
         IN  Append(front, last + gaps[Len(gaps)])

CountKind(objs, k) == Cardinality({ i \in 1..Len(objs) : objs[i].kind = k })

\* rosu_pp::Beatmap: the hit objects, the counts its parser keeps, and the
\* map-wide slider settings
Beatmap(objs, sm, tr, ver, od) ==
    [hit_objects |-> objs, n_circles |-> CountKind(objs, "circle"),
     n_spinners |-> CountKind(objs, "spinner"), slider_mult |-> sm,
     tick_rate |-> tr, version |-> ver, od |-> od]

\* map.attributes().mods(mods).build() with the two mod predicates `stars`
\* reads: no mods, HR+DT, and EZ+HT
ModCases ==
    { [hr |-> FALSE, ez |-> FALSE, ar |-> 9, od |-> 8, cs |-> 5,
       clock_rate |-> [n |-> 1, d |-> 1]],
      [hr |-> TRUE, ez |-> FALSE, ar |-> 10, od |-> 10, cs |-> 7,
       clock_rate |-> [n |-> 3, d |-> 2]],
      [hr |-> FALSE, ez |-> TRUE, ar |-> 3, od |-> 2, cs |-> 2,
       clock_rate |-> [n |-> 3, d |-> 4]] }

Versions == {"april", "july"}

VARIABLES
    version,              \* which `stars` runs: osu_2015_april or osu_2021_july
    map,                  \* the Beatmap
    map_attributes,       \* the mod-adjusted attributes and mod predicates
    passed_objects,       \* Option<usize>
    pc,                   \* position of `stars`
    diff_attrs,           \* OsuDifficultyAttributes being filled
    consumed,             \* objects the hit_objects iterator has yielded
    current_section_end,  \* the section cursor
    prev, curr,           \* the OsuObjects of the current pairing
    aim, speed,           \* the two Skills
    opc,                  \* position of OsuObject::new
    fr,                   \* locals of OsuObject::new for a slider
    ticks                 \* the shared tick buffer (ticks_buf)

vars == <<version, map, map_attributes, passed_objects, pc, diff_attrs, consumed,
          current_section_end, prev, curr, aim, speed, opc, fr, ticks>>


\* ---- pure parts of `stars` --------------------------------------------
\* let take = passed_objects.unwrap_or(map.hit_objects.len());
take == IF passed_objects.some THEN passed_objects.v ELSE Len(map.hit_objects)

\* what map.hit_objects.iter().take(take) yields in all
InScope == Min(take, Len(map.hit_objects))

\* the mod multiplier of osu_2015_april, as a fraction of 10
mod_mult == IF map_attributes.hr THEN 14 ELSE IF map_attributes.ez THEN 5 ELSE 10

\* modify_od: the result (OD_MIN - odms) / 6 as the fraction n/d
modify_od(base_od, speed_mult, mm) ==
    LET od6 == CeilDiv(6 * base_od * mm, 10)
        odms == OD_MIN - 10 * od6
        clamped == Min(OD_MIN, Max(OD_MAX, odms))
    IN  [n |-> OD_MIN * speed_mult.n - clamped * speed_mult.d,
         d |-> 60 * speed_mult.n]

\* the attributes `stars` starts from: ar, od and Default::default()
InitialAttrs ==
    [aim_strain |-> 0, speed_strain |-> 0,
     ar |-> map_attributes.ar,
     od |-> IF version = "april"
            THEN modify_od(map.od, map_attributes.clock_rate, mod_mult)
            ELSE [n |-> map_attributes.od, d |-> 1],
     hp |-> 0, n_circles |-> 0, n_sliders |-> 0, n_spinners |-> 0,
     stars |-> 0, max_combo |-> 0]

\* section width: scaled by the clock rate in osu_2015_april only
section_len ==
    IF version = "april"
    THEN (SECTION_LEN * map_attributes.clock_rate.n) \div map_attributes.clock_rate.d
    ELSE SECTION_LEN

\* OBJECT_RADIUS * (1.0 - 0.7 * (cs - 5.0) / 5.0) / 2.0, in 1/100 pixel
radius == OBJECT_RADIUS * (50 - 7 * (map_attributes.cs - 5))

\* NORMALIZED_RADIUS / radius, times 1 + small_circle_bonus when radius < 30
\* (the fraction is kept in lowest terms)
scaling_factor ==
    LET bonus == IF radius < 3000 THEN Min(3000 - radius, 500) ELSE 0
        n == NORMALIZED_RADIUS * (5000 + bonus)
        d == radius * 50
    IN  [n |-> n \div GCD(n, d), d |-> d \div GCD(n, d)]

\* aim_strain + speed_strain + (aim_strain - speed_strain).abs() / 2.0
\* (strains are even integers, so the halving is exact)
StarRating_MaxPlusHalfMin(aim_strain, speed_strain) ==
    Max(aim_strain, speed_strain) + Min(aim_strain, speed_strain) \div 2
StarRating(aim_strain, speed_strain) ==
    aim_strain + speed_strain + Abs(aim_strain - speed_strain) \div 2

\* the time of the sample the hit_objects closure yields: osu_2021_july
\* divides it by the clock rate, osu_2015_april leaves it
YieldTime(t) ==
    IF version = "july"
    THEN (t * map_attributes.clock_rate.d) \div map_attributes.clock_rate.n
    ELSE t

\* ---- Skill (skill.rs is not part of the sources) ------------------------
\* A skill is kept as the number of peaks saved and of transitions processed.
NewSkill == [n_peaks |-> 0, n_processed |-> 0]
save_current_peak(s) == [s EXCEPT !.n_peaks = @ + 1]
start_new_section_from(s, t) == s
process(s) == [s EXCEPT !.n_processed = @ + 1]
\* the values sqrt(difficulty_value()) * DIFFICULTY_MULTIPLIER can take
Strains == {0, 2, 4}

\* ---- Curve (curve.rs is not part of the sources) ------------------------
\* progress is NaN or the fraction num/den
NaN == [nan |-> TRUE, num |-> 0, den |-> 1]
Frac(a, b) == [nan |-> FALSE, num |-> a, den |-> b]
CurveDist(h) == h.curve_dist
\* a straight path: the point at that fraction of the length; a zero-length
\* path answers its first control point for every progress
position_at(h, progress) ==
    IF h.curve_dist = 0 \/ progress.nan THEN 0
    ELSE (progress.num * h.curve_dist) \div progress.den

\* ---- OsuObject::new -----------------------------------------------------
NoFrame ==
    [vel |-> 0, span_duration |-> 0, total_duration |-> 0, len |-> 0,
     tick_dist |-> 0, curr_dist |-> 0, span_idx |-> 0, it |-> 0,
     end_pos |-> 0, travel_dist |-> 0, progress |-> Frac(0, 1)]

NoObject == [time |-> 0, pos |-> 0, end_pos |-> 0, travel_dist |-> None]

approx_follow_circle_radius == radius * 3

scoring_dist(h) == BASE_SCORING_DISTANCE * 100 * map.slider_mult * h.slider_vel

\* scoring_dist / map.tick_rate * tick_dist_mult
raw_tick_dist(h) ==
    (scoring_dist(h) \div map.tick_rate)
        \div (IF map.version < 8 THEN h.slider_vel ELSE 1)

\* tick_dist.clamp(0.0, len); f64::INFINITY clamps to len
clamp_tick_dist(h, len) ==
    IF h.generate_ticks THEN Min(Max(raw_tick_dist(h), 0), len) ELSE len

\* the locals of the Slider arm up to the tick loop
SliderFrame(h) ==
    LET vel == scoring_dist(h) \div h.beat_len
        span_count == h.repeats + 1
        end_time == h.start_time + (span_count * CurveDist(h)) \div vel
        total_duration == end_time - h.start_time
        len == Min(CurveDist(h), 10000000)
        tick_dist == clamp_tick_dist(h, len)
    IN  [vel |-> vel, span_duration |-> total_duration \div span_count,
         total_duration |-> total_duration, len |-> len,
         tick_dist |-> tick_dist, curr_dist |-> tick_dist,
         span_idx |-> 0, it |-> 0,
         end_pos |-> h.pos, travel_dist |-> 0, progress |-> Frac(0, 1)]

\* (time - h.start_time) / span_duration, folded onto [0, 1]
Progress(h, f, time) ==
    LET num == time - h.start_time
        den == f.span_duration
    IN  IF den = 0 THEN NaN
        ELSE IF (num % (2 * den)) >= den
             THEN Frac(den - (num % den), den)
             ELSE Frac(num % den, den)

\* the closure compute_vertex, on the frame (the combo is counted apart)
compute_vertex_NoTravel(h, f, time) ==
    LET progress == Progress(h, f, time)
        curr_pos == h.pos + position_at(h, progress)
        diff == curr_pos - f.end_pos
        dist == Abs(diff)
    IN  IF dist > approx_follow_circle_radius
        THEN [f EXCEPT !.progress = progress,
                       !.end_pos = @ + Sign(diff) * (dist - approx_follow_circle_radius)]
        ELSE [f EXCEPT !.progress = progress]
compute_vertex_RawJump(h, f, time) ==
    LET progress == Progress(h, f, time)
        curr_pos == h.pos + position_at(h, progress)
        diff == curr_pos - f.end_pos
        dist == Abs(diff)
    IN  IF dist > approx_follow_circle_radius
        THEN [f EXCEPT !.progress = progress,
                       !.end_pos = @ + diff,
                       !.travel_dist = @ + dist]
        ELSE [f EXCEPT !.progress = progress]
compute_vertex(h, f, time) ==
    LET progress == Progress(h, f, time)
        curr_pos == h.pos + position_at(h, progress)
        diff == curr_pos - f.end_pos
        dist == Abs(diff)
    IN  IF dist > approx_follow_circle_radius
        THEN [f EXCEPT !.progress = progress,
                       !.end_pos = @ + Sign(diff) * (dist - approx_follow_circle_radius),
                       !.travel_dist = @ + (dist - approx_follow_circle_radius)]
        ELSE [f EXCEPT !.progress = progress]

\* attrs.max_combo += 1
CountCombo(a) == [a EXCEPT !.max_combo = @ + 1]

min_dist_from_end(f) == f.vel * 10

\* while curr_dist < len - min_dist_from_end
InFirstSpan(f) == f.curr_dist < f.len - min_dist_from_end(f)

\* where OsuObject::new goes once a span is through: the next span's repeat
\* point, or the end of the tick block
AfterSpan(h, f) ==
    IF f.span_idx < h.repeats THEN "repeat" ELSE "tail"

\* where it goes from the first-span loop
AfterTick(h, f) == IF InFirstSpan(f) THEN "tick" ELSE AfterSpan(h, f)

\* the time of the vertex replayed for tick `time` in span span_idx
ReplayTime(h, f, time) ==
    LET span_offset == f.span_idx * f.span_duration
        base == h.start_time + h.start_time + f.span_duration
    IN  IF f.span_idx % 2 = 1 THEN span_offset + base - time
        ELSE span_offset + time

\* final_span_end_time
TailTime(h, f) ==
    LET final_span_start_time == h.start_time + h.repeats * f.span_duration
    IN  Max(h.start_time + f.total_duration \div 2,
            final_span_start_time + f.span_duration - LEGACY_LAST_TICK_OFFSET)

\* the hit object OsuObject::new is working on
Current == map.hit_objects[consumed]


\* ticks.clear() closes the tick block, which runs only for a non-zero tick_dist
ClearTicks_Never(f, buf) == buf
ClearTicks(f, buf) == IF f.tick_dist # 0 THEN <<>> ELSE buf

\* travel_dist *= scaling_factor, and the Self the Slider arm returns
SliderObject(h, f) ==
    [time |-> YieldTime(h.start_time), pos |-> h.pos, end_pos |-> f.end_pos,
     travel_dist |-> Some((f.travel_dist * scaling_factor.n) \div scaling_factor.d)]

\* the Self of the Circle arm and of the Spinner | Hold arm
PointObject(h) ==
    [time |-> YieldTime(h.start_time), pos |-> h.pos, end_pos |-> h.pos,
     travel_dist |-> IF h.kind = "circle" THEN Some(0) ELSE None]

\* ---- initial states -----------------------------------------------------
Gaps == {0, 300, 900}
TimedObjects ==
    UNION { { [i \in 1..m |-> MkObject(ks[i], StartTimes(gs)[i], DefaultVariant)] :
                ks \in [1..m -> Kinds], gs \in [1..m -> Gaps] } : m \in 0..MaxObjs }

\* maps whose sliders all have the variant v, 300 ms apart
VariantObjects(v) ==
    UNION { { [i \in 1..m |-> MkObject(ks[i], 300 * i, v)] :
                ks \in [1..m -> Kinds] } : m \in 0..MaxObjs }

InitLocals ==
    /\ pc = "start"
    /\ diff_attrs = InitialAttrs
    /\ consumed = 0
    /\ current_section_end = 0
    /\ prev = NoObject
    /\ curr = NoObject
    /\ aim = NewSkill
    /\ speed = NewSkill
    /\ opc = "idle"
    /\ fr = NoFrame
    /\ ticks = <<>>

\* maps that vary in kinds and times
Init ==
    /\ version \in Versions
    /\ map_attributes \in ModCases
    /\ map \in { Beatmap(o, 1, 1, 14, 7) : o \in TimedObjects }
    /\ passed_objects \in {None} \cup { Some(k) : k \in 0..MaxObjs }
    /\ InitLocals

\* maps that vary in the slider they hold
InitSliders ==
    /\ version \in Versions
    /\ map_attributes \in ModCases
    /\ map \in { Beatmap(o, 1, m.tick_rate, m.version, 7) :
                    o \in UNION { VariantObjects(v) : v \in SliderVariants },
                    m \in { [tick_rate |-> 1, version |-> 14],
                            [tick_rate |-> 2, version |-> 7] } }
    /\ passed_objects \in {None, Some(2)}
    /\ InitLocals

\* ---- `stars` ------------------------------------------------------------
StarsVars == <<pc, current_section_end, prev, aim, speed>>
ObjVars == <<opc, fr, ticks, curr, consumed>>
Inputs == <<version, map, map_attributes, passed_objects>>

\* if take < 2 { return diff_attrs; }
ShortCircuit ==
    /\ pc = "start"
    /\ take < 2
    /\ pc' = "done"
    /\ UNCHANGED <<Inputs, diff_attrs, current_section_end, prev, aim, speed, ObjVars>>

\* the set-up past the early return; osu_2015_april anchors the cursor on
\* map.hit_objects[0] here, which panics on an empty map
Begin ==
    /\ pc = "start"
    /\ take >= 2
    /\ IF version = "april"
       THEN IF Len(map.hit_objects) = 0
            THEN /\ pc' = "panicked"
                 /\ UNCHANGED current_section_end
            ELSE /\ pc' = "first"
                 /\ current_section_end' =
                        CeilDiv(map.hit_objects[1].start_time, section_len) * section_len
       ELSE /\ pc' = "first"
            /\ UNCHANGED current_section_end
    /\ UNCHANGED <<Inputs, diff_attrs, prev, aim, speed, ObjVars>>

\* hit_objects.next() has something to yield
HasNext == consumed < InScope

\* hit_objects.next().unwrap() on an exhausted iterator
UnwrapNone ==
    /\ pc \in {"first", "second"}
    /\ opc = "idle"
    /\ ~HasNext
    /\ pc' = "panicked"
    /\ UNCHANGED <<Inputs, diff_attrs, current_section_end, prev, aim, speed, ObjVars>>

\* OsuObject::new for a circle, a spinner or a hold
SamplePoint ==
    /\ pc \in {"first", "second", "loop"}
    /\ opc = "idle"
    /\ HasNext
    /\ map.hit_objects[consumed + 1].kind # "slider"
    /\ consumed' = consumed + 1
    /\ diff_attrs' = CountCombo(diff_attrs)
    /\ curr' = PointObject(map.hit_objects[consumed + 1])
    /\ opc' = "ready"
    /\ UNCHANGED <<Inputs, StarsVars, fr, ticks>>

\* OsuObject::new for a slider, up to the tick block
SliderHead ==
    /\ pc \in {"first", "second", "loop"}
    /\ opc = "idle"
    /\ HasNext
    /\ map.hit_objects[consumed + 1].kind = "slider"
    /\ consumed' = consumed + 1
    /\ diff_attrs' = [CountCombo(diff_attrs) EXCEPT !.n_sliders = @ + 1]
    /\ LET h == map.hit_objects[consumed + 1]
           f == SliderFrame(h)
       IN  /\ fr' = f
           /\ opc' = IF f.tick_dist # 0 THEN AfterTick(h, f) ELSE "tail"
    /\ UNCHANGED <<Inputs, StarsVars, ticks, curr>>

\* one round of the first-span loop
FirstSpanTick ==
    /\ opc = "tick"
    /\ LET h == Current
           curr_time == h.start_time + (fr.curr_dist * fr.span_duration) \div fr.len
           f == [compute_vertex(h, fr, curr_time) EXCEPT !.curr_dist = @ + fr.tick_dist]
       IN  /\ fr' = f
           /\ ticks' = Append(ticks, curr_time)
           /\ opc' = AfterTick(h, f)
    /\ diff_attrs' = CountCombo(diff_attrs)
    /\ UNCHANGED <<Inputs, StarsVars, curr, consumed>>

\* the repeat point that opens span span_idx + 1
RepeatPoint ==
    /\ opc = "repeat"
    /\ LET h == Current
           span_idx == fr.span_idx + 1
           curr_time == h.start_time + fr.span_duration * span_idx
           f == [compute_vertex(h, fr, curr_time) EXCEPT !.span_idx = span_idx, !.it = 0]
       IN  /\ fr' = f
           /\ opc' = IF Len(ticks) > 0 THEN "replay" ELSE AfterSpan(h, f)
    /\ diff_attrs' = CountCombo(diff_attrs)
    /\ UNCHANGED <<Inputs, StarsVars, ticks, curr, consumed>>

\* one tick of a later span: ticks.iter().rev() in odd spans, ticks.iter() in even
ReplayTick ==
    /\ opc = "replay"
    /\ LET h == Current
           i == fr.it + 1
           time == IF fr.span_idx % 2 = 1 THEN ticks[Len(ticks) + 1 - i] ELSE ticks[i]
           f == [compute_vertex(h, fr, ReplayTime(h, fr, time)) EXCEPT !.it = i]
       IN  /\ fr' = f
           /\ opc' = IF i < Len(ticks) THEN "replay" ELSE AfterSpan(h, f)
    /\ diff_attrs' = CountCombo(diff_attrs)
    /\ UNCHANGED <<Inputs, StarsVars, ticks, curr, consumed>>

\* the end of the tick block, the slider tail and the return
SliderTail ==
    /\ opc = "tail"
    /\ LET h == Current
           f == compute_vertex(h, fr, TailTime(h, fr))
       IN  /\ curr' = SliderObject(h, f)
           /\ fr' = f
    /\ ticks' = ClearTicks(fr, ticks)
    /\ diff_attrs' = CountCombo(diff_attrs)
    /\ opc' = "ready"
    /\ UNCHANGED <<Inputs, StarsVars, consumed>>

\* let mut prev = hit_objects.next().unwrap(); osu_2021_july anchors the
\* cursor on prev.time here
AfterFirst ==
    /\ pc = "first"
    /\ opc = "ready"
    /\ prev' = curr
    /\ current_section_end' =
          IF version = "july"
          THEN CeilDiv(curr.time, section_len) * section_len
          ELSE current_section_end
    /\ pc' = "second"
    /\ opc' = "idle"
    /\ UNCHANGED <<Inputs, diff_attrs, aim, speed, fr, ticks, curr, consumed>>

\* DifficultyObject::new(&curr, &prev, ..): h.base is curr
Paired ==
    /\ pc \in {"second", "loop"}
    /\ opc = "ready"
    /\ pc' = IF pc = "second" THEN "skip" ELSE "advance"
    /\ opc' = "idle"
    /\ UNCHANGED <<Inputs, diff_attrs, current_section_end, prev, aim, speed,
                   fr, ticks, curr, consumed>>

\* while h.base.time > current_section_end
PastSection_Inclusive == curr.time >= current_section_end
PastSection == curr.time > current_section_end

\* the loop of the second object: the cursor alone moves
SkipSection ==
    /\ pc = "skip"
    /\ PastSection
    /\ current_section_end' = current_section_end + section_len
    /\ UNCHANGED <<Inputs, diff_attrs, pc, prev, aim, speed, ObjVars>>

\* skill.save_current_peak(); skill.start_new_section_from(current_section_end);
CloseSkill_NoSave(skill, t) == start_new_section_from(skill, t)
CloseSkill(skill, t) == start_new_section_from(save_current_peak(skill), t)

\* the loop of every later object: both skills close the section
CloseSection ==
    /\ pc = "advance"
    /\ PastSection
    /\ aim' = CloseSkill(aim, current_section_end)
    /\ speed' = CloseSkill(speed, current_section_end)
    /\ current_section_end' = current_section_end + section_len
    /\ UNCHANGED <<Inputs, diff_attrs, pc, prev, ObjVars>>

\* aim.process(&h); speed.process(&h); prev = curr;
Process ==
    /\ pc \in {"skip", "advance"}
    /\ ~PastSection
    /\ aim' = process(aim)
    /\ speed' = process(speed)
    /\ prev' = curr
    /\ pc' = "loop"
    /\ UNCHANGED <<Inputs, diff_attrs, current_section_end, ObjVars>>

\* what osu_2021_july copies from the map at the end
FinalCounts(a) ==
    IF version = "july"
    THEN [a EXCEPT !.n_circles = map.n_circles, !.n_spinners = map.n_spinners]
    ELSE a

\* the for loop is through: the last save_current_peak, the strains, the stars
Finish ==
    /\ pc = "loop"
    /\ opc = "idle"
    /\ ~HasNext
    /\ aim' = save_current_peak(aim)
    /\ speed' = save_current_peak(speed)
    /\ \E aim_strain \in Strains, speed_strain \in Strains :
          diff_attrs' = [FinalCounts(diff_attrs) EXCEPT
                            !.stars = StarRating(aim_strain, speed_strain),
                            !.speed_strain = speed_strain,
                            !.aim_strain = aim_strain]
    /\ pc' = "done"
    /\ UNCHANGED <<Inputs, current_section_end, prev, ObjVars>>

Next ==
    \/ ShortCircuit
    \/ Begin
    \/ UnwrapNone
    \/ SamplePoint
    \/ SliderHead
    \/ FirstSpanTick
    \/ RepeatPoint
    \/ ReplayTick
    \/ SliderTail
    \/ AfterFirst
    \/ Paired
    \/ SkipSection
    \/ CloseSection
    \/ Process
    \/ Finish

Spec == Init /\ [][Next]_vars
SpecSliders == InitSliders /\ [][Next]_vars


\* ---- what the properties speak of -----------------------------------------
\* the first section boundary at or after the first object
Anchor ==
    CeilDiv(YieldTime(map.hit_objects[1].start_time), section_len) * section_len

\* the cursor once the second object's loop is through
SecondCursor ==
    Max(Anchor,
        CeilDiv(YieldTime(map.hit_objects[2].start_time), section_len) * section_len)

\* the in-scope objects
Scoped == SubSeq(map.hit_objects, 1, InScope)

\* ticks of the first span: the multiples of tick_dist short of the end margin
TickCount(h) ==
    LET f == SliderFrame(h)
    IN  IF f.tick_dist = 0 THEN 0
        ELSE Cardinality({ j \in 1..(f.len \div f.tick_dist) :
                              j * f.tick_dist < f.len - 10 * f.vel })

\* the combo a hold object is to add past its head: T ticks in each of the
\* R + 1 spans, R repeat points, one tail
SliderCombo(h) == TickCount(h) * (h.repeats + 1) + h.repeats + 1

RECURSIVE ExtraCombo(_)
ExtraCombo(objs) ==
    IF objs = <<>> THEN 0
    ELSE ExtraCombo(Tail(objs))
            + (IF Head(objs).kind = "slider" THEN SliderCombo(Head(objs)) ELSE 0)

\* where on a straight path the tail vertex lies
TailPos(h) ==
    LET f == SliderFrame(h)
        sd == f.span_duration
        tau == Max(f.total_duration \div 2,
                   f.total_duration - LEGACY_LAST_TICK_OFFSET)
    IN  IF sd = 0 THEN 0
        ELSE IF (tau \div sd) % 2 = 1 THEN ((sd - (tau % sd)) * h.curve_dist) \div sd
        ELSE ((tau % sd) * h.curve_dist) \div sd

\* some sampled vertex (tick, repeat point, tail) lies farther from the head
\* than the follow-circle radius
FarVertex(h) ==
    LET f == SliderFrame(h)
    IN  \/ TickCount(h) * f.tick_dist > approx_follow_circle_radius
        \/ /\ h.repeats >= 1
           /\ f.tick_dist # 0
           /\ h.curve_dist > approx_follow_circle_radius
        \/ TailPos(h) > approx_follow_circle_radius

\* OsuObject::new is about to compute a vertex
AtVertex == opc \in {"tick", "repeat", "replay", "tail"}

Returned == pc = "done"
Computed == pc = "done" /\ take >= 2

\* ---- C1 -------------------------------------------------------------------
\* C1: with fewer than 2 hit objects in scope `stars` returns normally, the
\* attributes hold ar and od alone, and no hit object was sampled.
C1_MinimalAttributes ==
    InScope < 2 =>
        /\ pc # "panicked"
        /\ Returned => diff_attrs = InitialAttrs /\ consumed = 0

\* ---- C2 -------------------------------------------------------------------
\* C2 as stated: the star rating is max(aim, speed) + min(aim, speed) / 2.
C2_MaxPlusHalfMin ==
    Computed =>
        diff_attrs.stars =
            Max(diff_attrs.aim_strain, diff_attrs.speed_strain)
                + Min(diff_attrs.aim_strain, diff_attrs.speed_strain) \div 2

\* C2 amended: the star rating is aim + speed + |aim - speed| / 2, that is
\* (3 * max + min) / 2, and it is max + min / 2 only when both strains are 0.
C2_StarRating ==
    Computed =>
        LET a == diff_attrs.aim_strain
            b == diff_attrs.speed_strain
        IN  /\ 2 * diff_attrs.stars = 3 * Max(a, b) + Min(a, b)
            /\ (diff_attrs.stars = Max(a, b) + Min(a, b) \div 2) <=> (a = 0 /\ b = 0)

C2_Witness ==
    Computed /\ diff_attrs.aim_strain = 4 /\ diff_attrs.speed_strain = 2
        /\ diff_attrs.stars = 7

\* ---- C3 -------------------------------------------------------------------
\* C3: after `stars` over k >= 2 in-scope objects max_combo is k plus
\* T * (R + 1) + R + 1 for every in-scope hold object.
C3_MaxCombo ==
    Computed => diff_attrs.max_combo = InScope + ExtraCombo(Scoped)

\* ---- C4 -------------------------------------------------------------------
\* C4 as stated: before the final close-out each peak list is as long as the
\* number of section boundaries crossed since the cursor was anchored.
C4_PeaksCountAllCrossings ==
    pc \in {"skip", "advance", "loop"} =>
        /\ aim.n_peaks * section_len = current_section_end - Anchor
        /\ speed.n_peaks * section_len = current_section_end - Anchor

\* C4 amended: the crossings of the second object's loop append no peak; every
\* later crossing appends one peak to each skill, so before the final
\* close-out each peak list is as long as the number of boundaries crossed
\* since the second object's loop ended.
C4_PeaksCountLaterCrossings ==
    /\ pc = "skip" => aim.n_peaks = 0 /\ speed.n_peaks = 0
    /\ pc \in {"advance", "loop"} =>
        /\ aim.n_peaks * section_len = current_section_end - SecondCursor
        /\ speed.n_peaks * section_len = current_section_end - SecondCursor

C4_Witness ==
    /\ pc = "loop"
    /\ SecondCursor > Anchor
    /\ aim.n_peaks >= 2
    /\ speed.n_peaks >= 2

\* ---- C5 -------------------------------------------------------------------
\* C5 as stated: a hold object whose path is longer than the follow-circle
\* radius gets travel_dist = Some(d) with d > 0.
C5_TravelPositive ==
    (opc = "ready" /\ Current.kind = "slider"
        /\ Current.curve_dist > approx_follow_circle_radius) =>
        curr.travel_dist.some /\ curr.travel_dist.v > 0

\* C5 amended: such a hold object gets travel_dist = Some(d) with d >= 0, and
\* d > 0 exactly when some sampled vertex (tick, repeat point or tail) lies
\* farther from the head than the follow-circle radius.
C5_TravelPositiveIffFarVertex ==
    (opc = "ready" /\ Current.kind = "slider"
        /\ Current.curve_dist > approx_follow_circle_radius) =>
        /\ curr.travel_dist.some
        /\ curr.travel_dist.v >= 0
        /\ curr.travel_dist.v > 0 <=> FarVertex(Current)

C5_Witness ==
    /\ opc = "ready"
    /\ Current.kind = "slider"
    /\ Current.curve_dist > approx_follow_circle_radius
    /\ FarVertex(Current)
    /\ curr.travel_dist.v > 0

\* ---- C6 -------------------------------------------------------------------
\* C6: whenever compute_vertex divides by span_duration it is non-zero, and
\* the tick distance in use is positive.
C6_NoZeroSpanDuration ==
    AtVertex => fr.span_duration # 0 /\ fr.tick_dist > 0

\* ---- C7 -------------------------------------------------------------------
\* C7: after `stars` with k >= 2 objects in scope n_circles, n_sliders and
\* n_spinners count the objects of each kind among the in-scope objects.
C7_CountsInScope ==
    Computed =>
        /\ diff_attrs.n_circles = CountKind(Scoped, "circle")
        /\ diff_attrs.n_sliders = CountKind(Scoped, "slider")
        /\ diff_attrs.n_spinners = CountKind(Scoped, "spinner")

\* ---- C8 -------------------------------------------------------------------
\* C8: the tick buffer is empty whenever OsuObject::new has returned; the
\* repeat points and replays leave it as the first span filled it, and every
\* later span replays each of its ticks once, at the tick's own offset.
C8_Step ==
    /\ opc' = "ready" => ticks' = <<>>
    /\ opc \in {"repeat", "replay"} => ticks' = ticks
    /\ opc = "replay" =>
          LET i == fr'.it
              t == IF fr.span_idx % 2 = 1 THEN ticks[Len(ticks) + 1 - i] ELSE ticks[i]
          IN  /\ i = fr.it + 1
              /\ fr'.progress = Frac(t - Current.start_time, fr.span_duration)
              /\ opc' # "replay" <=> i = Len(ticks)
\* C8: every step of a run keeps the tick buffer as C8_Step states.
C8_TickBuffer == [][C8_Step]_vars

C8_Witness ==
    /\ opc = "ready"
    /\ consumed >= 2
    /\ Current.kind = "slider"
    /\ Current.repeats >= 2
    /\ TickCount(Current) >= 2
    /\ map.hit_objects[1].kind = "slider"
    /\ ticks = <<>>

\* ---- C9 -------------------------------------------------------------------
\* C9: a vertex within the follow-circle radius of the end position leaves
\* end position and travel distance alone; any other moves the end position
\* toward it by the excess and adds the excess to the travel distance.  After
\* a vertex the end position is within the radius of it, the travel distance
\* is non-negative and has not decreased, and a hold object whose vertices all
\* lie within the radius of the head ends with travel_dist 0 at the head.
C9_Step ==
    AtVertex =>
        LET h == Current
            p == h.pos + position_at(h, fr'.progress)
            d == Abs(p - fr.end_pos)
            excess == d - approx_follow_circle_radius
        IN  /\ d <= approx_follow_circle_radius =>
                  fr'.end_pos = fr.end_pos /\ fr'.travel_dist = fr.travel_dist
            /\ d > approx_follow_circle_radius =>
                  /\ fr'.end_pos = fr.end_pos + Sign(p - fr.end_pos) * excess
                  /\ fr'.travel_dist = fr.travel_dist + excess
            /\ Abs(p - fr'.end_pos) <= approx_follow_circle_radius
            /\ fr.travel_dist >= 0
            /\ fr'.travel_dist >= fr.travel_dist
            /\ (opc' = "ready" /\ ~FarVertex(h)) =>
                  curr'.travel_dist = Some(0) /\ curr'.end_pos = h.pos
\* C9: every vertex of a run obeys the follow-circle lag rule of C9_Step.
C9_FollowCircleLag == [][C9_Step]_vars

C9_Witness ==
    /\ opc = "ready"
    /\ Current.kind = "slider"
    /\ fr.travel_dist > 0
    /\ fr.end_pos # Current.pos
    /\ Abs(Current.pos + position_at(Current, fr.progress) - fr.end_pos)
          = approx_follow_circle_radius

\* ---- C10 ------------------------------------------------------------------
\* C10: a transition is processed with the cursor c at the end of the section
\* that holds its time t (c - section_len < t <= c); the cursor never
\* decreases and stays the anchor plus a whole number of sections; the final
\* step leaves the cursor alone and saves one peak in each skill.
C10_Step ==
    /\ aim'.n_processed # aim.n_processed =>
          /\ current_section_end - section_len < curr.time
          /\ curr.time <= current_section_end
          /\ speed'.n_processed = aim'.n_processed
    /\ current_section_end' >= current_section_end
    /\ pc' \in {"second", "skip", "advance", "loop", "done"} /\ take >= 2 =>
          /\ current_section_end' >= Anchor
          /\ (current_section_end' - Anchor) % section_len = 0
    /\ (pc' = "done" /\ take >= 2) =>
          /\ current_section_end' = current_section_end
          /\ aim'.n_peaks = aim.n_peaks + 1
          /\ speed'.n_peaks = speed.n_peaks + 1
          /\ aim'.n_peaks * section_len = current_section_end - SecondCursor + section_len
          /\ aim'.n_processed = InScope - 1
\* C10: every step of a run keeps the section cursor as C10_Step states.
C10_SectionCursor == [][C10_Step]_vars

C10_Witness ==
    /\ pc = "done"
    /\ take >= 2
    /\ aim.n_processed >= 2
    /\ aim.n_peaks >= 3
    /\ current_section_end > SecondCursor
    /\ SecondCursor > Anchor

====
